---- MODULE Spec2Model ----
(***************************************************************************)
(* TabletopInventory: the Character / Item / Currency data model and the   *)
(* CharacterManager registry with its one-JSON-file-per-character          *)
(* persistence (src/tabletop_inventory.py, src/tabletop_text.py; the two   *)
(* files carry the same core classes).                                     *)
(*                                                                         *)
(* Representation.                                                         *)
(*   - Python strings are TLA+ strings; "" is the empty (falsy) string.    *)
(*   - A file name is [stem, ext]; the name on disk is stem \o ext.        *)
(*   - A dataclass instance is a record of its fields.                     *)
(*   - A member of ItemRarity is [enum |-> v], v its auto() value; a JSON  *)
(*     string is [str |-> s] and a JSON number is [num |-> n] where the    *)
(*     code tests the type of the value (the rarity field).               *)
(*   - A file holds either a JSON object (a record keyed by field name,    *)
(*     which may lack keys or carry extra ones) or text that is not JSON   *)
(*     (Corrupt).                                                          *)
(*   - Timestamps are clock readings (datetime.now().isoformat() is an    *)
(*     opaque string that is only stored and compared); every reading is   *)
(*     later than the one before, and the two default factories of one     *)
(*     Character() read the same instant.                                  *)
(*   - weight and value are whole numbers of the unit.                     *)
(***************************************************************************)
EXTENDS Integers, Sequences, FiniteSets, TLC

VARIABLES characters, files, uuids, now, last, window, other

vars == <<characters, files, uuids, now, last, window, other>>

(***************************************************************************)
(* Bounds                                                                  *)
(***************************************************************************)
\* uuids the generator hands out, and readings of the clock, in one run
MaxUuids == 2
MaxClock == 2

(***************************************************************************)
(* Small helpers                                                           *)
(***************************************************************************)
Without(d, k) == [x \in DOMAIN d \ {k} |-> d[x]]

With(d, k, v) == [x \in DOMAIN d \cup {k} |-> IF x = k THEN v ELSE d[x]]

EmptyMap == [x \in {} |-> 0]

\* position of x among the elements of the set of numbers S, in ascending order
Position(S, x) == Cardinality({y \in S : y < x}) + 1

(***************************************************************************)
(* ItemRarity, Item, Currency, Character                                   *)
(***************************************************************************)
ItemRarity == <<"COMMON", "UNCOMMON", "RARE", "VERY_RARE", "LEGENDARY", "ARTIFACT">>

IsItemRarity(v) == DOMAIN v = {"enum"}

IsStr(v) == DOMAIN v = {"str"}

\* member.name
RarityName(m) == ItemRarity[m.enum]

\* ItemRarity[name]: defined only for the names of the enumeration (KeyError otherwise)
RarityHasName(s) == \E v \in DOMAIN ItemRarity : ItemRarity[v] = s

RarityByName(s) == [enum |-> CHOOSE v \in DOMAIN ItemRarity : ItemRarity[v] = s]

\* class ItemRarity(Enum) with its six members declared in another order:
\* auto() numbers the members 1..6 in the order of declaration
Reorderings ==
    {e \in [DOMAIN ItemRarity -> {ItemRarity[v] : v \in DOMAIN ItemRarity}] :
        \A v, w \in DOMAIN e : e[v] = e[w] => v = w}

\* member.name in a program that declares the enumeration as e
NameOf(e, m) == e[m.enum]

\* (a loader that finds the member by the ordinal the name had when saved)
MemberNamed_ordinal(e, s) == RarityByName(s)

\* ItemRarity[name] in a program that declares the enumeration as e
MemberNamed(e, s) == [enum |-> CHOOSE v \in DOMAIN e : e[v] = s]

\* (a generator that hands out one value again and again)
uuid4_again(n) == "u" \o ToString(1)

\* str(uuid.uuid4()): the n-th identifier the generator hands out
uuid4(n) == "u" \o ToString(n)

Currency(p, g, s, c) == [platinum |-> p, gold |-> g, silver |-> s, copper |-> c]

ItemKeys == {"id", "name", "description", "quantity", "weight", "value", "rarity", "equipped", "tags"}

CurrencyKeys == {"platinum", "gold", "silver", "copper"}

CharacterKeys == {"id", "name", "game_system", "level", "notes", "created_at", "updated_at"}

\* Item(...) with __post_init__: an empty id is replaced by a fresh uuid (n is
\* the number of uuids handed out so far)
Item(d, n) ==
    [id |-> IF d.id = "" THEN uuid4(n + 1) ELSE d.id,
     name |-> d.name, description |-> d.description, quantity |-> d.quantity,
     weight |-> d.weight, value |-> d.value, rarity |-> d.rarity,
     equipped |-> d.equipped, tags |-> d.tags]

\* Character(id, name, game_system, ...) with the dataclass defaults and __post_init__
Character(id, name, game_system, level, notes, created_at, updated_at, n) ==
    [id |-> IF id = "" THEN uuid4(n + 1) ELSE id,
     name |-> name, game_system |-> game_system, level |-> level,
     inventory |-> <<>>, currency |-> Currency(0, 0, 0, 0), notes |-> notes,
     created_at |-> created_at, updated_at |-> updated_at]

(***************************************************************************)
(* File names                                                              *)
(***************************************************************************)
JsonName(stem) == [stem |-> stem, ext |-> ".json"]

\* os.path.join(self.save_dir, f"{character_id}.json")
SavePath(character_id) == JsonName(character_id)

\* (a loader that takes every file of the directory)
EndsWithJson_any(f) == TRUE

\* file_name.endswith(".json")
EndsWithJson(f) == f.ext = ".json"

Corrupt == [corrupt |-> TRUE]

\* os.listdir returns the names in an order the file system chooses.  The
\* listings considered are the two that follow the file system's own order of
\* the names, forwards and backwards, so that every two files are met in both
\* orders.  NameOrder lists the stems that occur; uuid-named files follow.
NameOrder == <<"a", "bad", "copy", "g", "m", "pasa_phist">>

StemRank(stem) ==
    IF \E i \in DOMAIN NameOrder : NameOrder[i] = stem
    THEN CHOOSE i \in DOMAIN NameOrder : NameOrder[i] = stem
    ELSE Len(NameOrder) + (CHOOSE n \in 1..20 : n = 20 \/ uuid4(n) = stem)

NameRank(f) == 2 * StemRank(f.stem) + (IF f.ext = ".json" THEN 1 ELSE 0)

Forwards(S) ==
    [i \in 1..Cardinality(S) |->
        CHOOSE f \in S : Position({NameRank(g) : g \in S}, NameRank(f)) = i]

Backwards(S) ==
    [i \in 1..Cardinality(S) |-> Forwards(S)[Cardinality(S) + 1 - i]]

Listings(S) == {Forwards(S), Backwards(S)}


IsObject(content) == ~("corrupt" \in DOMAIN content)

\* no MainWindow was constructed: the manager is used on its own
NoWindow == <<>>

NoPath == [stem |-> "", ext |-> ""]

(***************************************************************************)
(* Character.add_item / remove_item                                        *)
(***************************************************************************)
\* (an add that stamps both times)
add_item_recreated(c, item, t) ==
    [c EXCEPT !.inventory = Append(@, item), !.updated_at = t, !.created_at = t]

\* self.inventory.append(item); self.updated_at = datetime.now().isoformat()
add_item(c, item, t) == [c EXCEPT !.inventory = Append(@, item), !.updated_at = t]

\* index of the first item whose id is item_id, 0 when there is none
FirstIndex(inventory, item_id) ==
    IF \E i \in DOMAIN inventory : inventory[i].id = item_id
    THEN CHOOSE i \in DOMAIN inventory :
            /\ inventory[i].id = item_id
            /\ \A j \in 1..(i - 1) : inventory[j].id # item_id
    ELSE 0

\* (a pop that takes the first element whatever the index)
Pop_first(inventory, i) == Tail(inventory)

\* self.inventory.pop(i)
Pop(inventory, i) == SubSeq(inventory, 1, i - 1) \o SubSeq(inventory, i + 1, Len(inventory))

\* (a remove that stamps updated_at before it searches)
remove_item_touch(c, item_id, t) ==
    LET i == FirstIndex(c.inventory, item_id)
    IN  IF i = 0 THEN [c EXCEPT !.updated_at = t]
        ELSE [c EXCEPT !.inventory = Pop(@, i), !.updated_at = t]

remove_item(c, item_id, t) ==
    LET i == FirstIndex(c.inventory, item_id)
    IN  IF i = 0 THEN c
        ELSE [c EXCEPT !.inventory = Pop(@, i), !.updated_at = t]

\* sum(iterable): start at 0, add the terms from left to right
RECURSIVE SumFrom(_, _, _)
SumFrom(terms, i, acc) ==
    IF i > Len(terms) THEN acc ELSE SumFrom(terms, i + 1, acc + terms[i])

sum(terms) == SumFrom(terms, 1, 0)

\* (a total that counts the equipped items only)
total_weight_equipped(c) ==
    sum([i \in DOMAIN c.inventory |->
            IF c.inventory[i].equipped THEN c.inventory[i].quantity * c.inventory[i].weight ELSE 0])

\* sum(item.quantity * item.weight for item in self.inventory)
total_weight(c) ==
    sum([i \in DOMAIN c.inventory |-> c.inventory[i].quantity * c.inventory[i].weight])

\* sum(item.quantity * item.value for item in self.inventory)
total_value(c) ==
    sum([i \in DOMAIN c.inventory |-> c.inventory[i].quantity * c.inventory[i].value])

(***************************************************************************)
(* CharacterManager.save_character                                         *)
(***************************************************************************)
\* asdict(item) with the rarity member replaced by its name
item_dict(it) ==
    [it EXCEPT !.rarity = IF IsItemRarity(@) THEN [str |-> RarityName(@)] ELSE @]

\* (a save that leaves the inventory out)
character_dict_noitems(c) == [c EXCEPT !.inventory = <<>>]

\* asdict(character), rarities converted: the object json.dump writes
character_dict(c) ==
    [c EXCEPT !.inventory = [i \in DOMAIN c.inventory |-> item_dict(c.inventory[i])]]

\* fault: "none", "open" (open(save_path, 'w') raises) or "write" (json.dump
\* raises after the file was opened for writing, leaving partial text)
SaveFaults == {"none", "open", "write"}

\* (a save that detects a file newer than the character and keeps it)
save_character_newest(chars, dir, character_id, fault) ==
    IF character_id \notin DOMAIN chars \/ fault = "open"
    THEN [ok |-> FALSE, files |-> dir]
    ELSE IF fault = "write"
    THEN [ok |-> FALSE, files |-> With(dir, SavePath(character_id), Corrupt)]
    ELSE IF /\ SavePath(character_id) \in DOMAIN dir
            /\ IsObject(dir[SavePath(character_id)])
            /\ dir[SavePath(character_id)].updated_at > chars[character_id].updated_at
    THEN [ok |-> TRUE, files |-> dir]
    ELSE [ok |-> TRUE,
          files |-> With(dir, SavePath(character_id), character_dict(chars[character_id]))]

\* (a save that opens the file before it looks the id up)
save_character_openfirst(chars, dir, character_id, fault) ==
    IF character_id \notin DOMAIN chars
    THEN [ok |-> FALSE, files |-> With(dir, SavePath(character_id), Corrupt)]
    ELSE IF fault = "open"
    THEN [ok |-> FALSE, files |-> dir]
    ELSE IF fault = "write"
    THEN [ok |-> FALSE, files |-> With(dir, SavePath(character_id), Corrupt)]
    ELSE [ok |-> TRUE,
          files |-> With(dir, SavePath(character_id), character_dict(chars[character_id]))]

save_character(chars, dir, character_id, fault) ==
    IF character_id \notin DOMAIN chars
    THEN [ok |-> FALSE, files |-> dir]
    ELSE IF fault = "open"
    THEN [ok |-> FALSE, files |-> dir]
    ELSE IF fault = "write"
    THEN [ok |-> FALSE, files |-> With(dir, SavePath(character_id), Corrupt)]
    ELSE [ok |-> TRUE,
          files |-> With(dir, SavePath(character_id), character_dict(chars[character_id]))]

(***************************************************************************)
(* CharacterManager.load_character                                         *)
(***************************************************************************)
\* for item in character_dict["inventory"]: if isinstance(item["rarity"], str): ...
RarityStageOk(d) ==
    /\ "inventory" \in DOMAIN d
    /\ \A i \in DOMAIN d.inventory :
          /\ "rarity" \in DOMAIN d.inventory[i]
          /\ IsStr(d.inventory[i].rarity) => RarityHasName(d.inventory[i].rarity.str)

\* (a loader that leaves the rarity as the string it read)
ConvertRarity_keep(r) == r

ConvertRarity(r) == IF IsStr(r) THEN RarityByName(r.str) ELSE r

\* Character(id=character_dict["id"], ..., updated_at=character_dict["updated_at"])
CharacterStageOk(d) == CharacterKeys \subseteq DOMAIN d

\* Item(id=item_dict["id"], ..., tags=item_dict["tags"]) for each item
ItemsStageOk(d) == \A i \in DOMAIN d.inventory : ItemKeys \subseteq DOMAIN d.inventory[i]

\* (a loader that reads the denominations with a default)
CurrencyStageOk_lenient(d) == "currency" \in DOMAIN d

\* Currency(platinum=currency_dict["platinum"], ..., copper=currency_dict["copper"])
CurrencyStageOk(d) == "currency" \in DOMAIN d /\ CurrencyKeys \subseteq DOMAIN d.currency

\* the statement of load_character that raises, or "done"
LoadStage(dir, file_path, fault) ==
    IF file_path \notin DOMAIN dir \/ fault \/ ~IsObject(dir[file_path]) THEN "open"
    ELSE IF ~RarityStageOk(dir[file_path]) THEN "rarity"
    ELSE IF ~CharacterStageOk(dir[file_path]) THEN "character"
    ELSE IF ~ItemsStageOk(dir[file_path]) THEN "items"
    ELSE IF ~CurrencyStageOk(dir[file_path]) THEN "currency"
    ELSE "done"

\* number of uuids the constructors draw for empty ids among the first k items
EmptyIds(inventory, k) == Cardinality({j \in 1..k : inventory[j].id = ""})

\* uuids drawn while reconstructing document d
UuidsNeeded(d) ==
    (IF d.id = "" THEN 1 ELSE 0) + EmptyIds(d.inventory, Len(d.inventory))

\* currency_dict[k]; whether the key is there (else KeyError) is CurrencyStageOk's
\* to decide, the value read without it is the one a defaulting read gives
CurrencyField(currency_dict, k) == IF k \in DOMAIN currency_dict THEN currency_dict[k] ELSE 0

\* number of leading items of d that carry every item key
BuiltItems(d) ==
    Cardinality({k \in DOMAIN d.inventory : \A j \in 1..k : ItemKeys \subseteq DOMAIN d.inventory[j]})

\* the local variable `character` of load_character when the call left at
\* `stage` ("items", "currency" or "done"), n uuids handed out before: the
\* items appended so far, the default Currency until the last assignment
Reconstruct(d, n, stage) ==
    LET n1 == n + (IF d.id = "" THEN 1 ELSE 0)
        c == Character(d.id, d.name, d.game_system, d.level, d.notes,
                       d.created_at, d.updated_at, n)
    IN  [c EXCEPT
           !.inventory = [i \in 1..BuiltItems(d) |->
                            Item([d.inventory[i] EXCEPT !.rarity = ConvertRarity(@)],
                                 n1 + EmptyIds(d.inventory, i - 1))],
           !.currency = IF stage = "done"
                        THEN Currency(CurrencyField(d.currency, "platinum"),
                                      CurrencyField(d.currency, "gold"),
                                      CurrencyField(d.currency, "silver"),
                                      CurrencyField(d.currency, "copper"))
                        ELSE Currency(0, 0, 0, 0)]

\* (a loader that registers the Character before it has set the currency)
Registers_early(stage) == stage \in {"currency", "done"}

\* the statement self.characters[character.id] = character is reached
Registers(stage) == stage = "done"

\* (a loader that keys the registry by the name of the file)
RegistryKey_stem(c, file_path) == file_path.stem

\* the key under which load_character registers the character c read from file_path
RegistryKey(c, file_path) == c.id

\* (a loader that keeps the Character already registered under the id)
load_character_setdefault(st, dir, file_path, fault) ==
    LET stage == LoadStage(dir, file_path, fault)
    IN  IF Registers(stage)
        THEN LET d == dir[file_path]
                 c == Reconstruct(d, st.uuids, stage)
             IN  [characters |-> IF c.id \in DOMAIN st.characters THEN st.characters
                                 ELSE With(st.characters, RegistryKey(c, file_path), c),
                  uuids |-> st.uuids + UuidsNeeded(d),
                  ret |-> <<c>>]
        ELSE [characters |-> st.characters, uuids |-> st.uuids, ret |-> <<>>]

\* load_character on manager state st = [characters, uuids]: the new manager
\* state and the returned value (<<character>>, or <<>> for None).  A call that
\* raises leaves the generator where it was: the objects built are garbage.
load_character(st, dir, file_path, fault) ==
    LET stage == LoadStage(dir, file_path, fault)
    IN  IF Registers(stage)
        THEN LET d == dir[file_path]
                 c == Reconstruct(d, st.uuids, stage)
             IN  [characters |-> With(st.characters, RegistryKey(c, file_path), c),
                  uuids |-> st.uuids + UuidsNeeded(d),
                  ret |-> IF stage = "done" THEN <<c>> ELSE <<>>]
        ELSE [characters |-> st.characters, uuids |-> st.uuids, ret |-> <<>>]

(***************************************************************************)
(* CharacterManager.load_all_characters                                    *)
(***************************************************************************)
\* the loop over os.listdir(self.save_dir), from position i of the listing.
\* st carries [characters, uuids, ret] with ret the list built so far.
RECURSIVE load_loop(_, _, _, _)
load_loop(st, dir, listing, i) ==
    IF i > Len(listing) THEN st
    ELSE IF ~EndsWithJson(listing[i])
    THEN load_loop(st, dir, listing, i + 1)
    ELSE LET r == load_character([characters |-> st.characters, uuids |-> st.uuids],
                                 dir, listing[i], FALSE)
         IN  load_loop([characters |-> r.characters, uuids |-> r.uuids,
                        ret |-> IF r.ret # <<>> THEN st.ret \o r.ret ELSE st.ret],
                       dir, listing, i + 1)

load_all_characters(st, dir, listing) ==
    load_loop([characters |-> st.characters, uuids |-> st.uuids, ret |-> <<>>],
              dir, listing, 1)

(***************************************************************************)
(* CharacterManager.delete_character                                       *)
(***************************************************************************)
\* (a delete that forgets the file)
delete_character_keepfile(chars, dir, character_id, fault) ==
    IF character_id \in DOMAIN chars
    THEN [ok |-> TRUE, raised |-> FALSE,
          characters |-> Without(chars, character_id), files |-> dir]
    ELSE [ok |-> FALSE, raised |-> FALSE, characters |-> chars, files |-> dir]

\* fault: os.remove(save_path) raises.  The entry is deleted before the file
\* is touched, and nothing catches the exception.
delete_character(chars, dir, character_id, fault) ==
    IF character_id \in DOMAIN chars
    THEN IF SavePath(character_id) \in DOMAIN dir
         THEN IF fault
              THEN [ok |-> FALSE, raised |-> TRUE,
                    characters |-> Without(chars, character_id), files |-> dir]
              ELSE [ok |-> TRUE, raised |-> FALSE,
                    characters |-> Without(chars, character_id),
                    files |-> Without(dir, SavePath(character_id))]
         ELSE [ok |-> TRUE, raised |-> FALSE,
               characters |-> Without(chars, character_id), files |-> dir]
    ELSE [ok |-> FALSE, raised |-> FALSE, characters |-> chars, files |-> dir]

\* (a create that starts the character with ten gold pieces)
create_character_rich(name, game_system, n, t) ==
    [Character(uuid4(n + 1), name, game_system, 1, "", t, t, n + 1)
        EXCEPT !.currency = Currency(0, 10, 0, 0)]

\* CharacterManager.create_character: Character(id=str(uuid.uuid4()), name, game_system)
create_character(name, game_system, n, t) ==
    Character(uuid4(n + 1), name, game_system, 1, "", t, t, n + 1)

(***************************************************************************)
(* The save directory as the program may find it: documents written by an   *)
(* earlier session or put there by hand                                     *)
(***************************************************************************)
DocItem ==
    [id |-> "i1", name |-> "Sword", description |-> "sharp", quantity |-> 3,
     weight |-> 2, value |-> 5, rarity |-> [str |-> "RARE"], equipped |-> TRUE,
     tags |-> <<"weapon", "steel">>]

GoodDoc(id, level) ==
    [id |-> id, name |-> "Pasa", game_system |-> "DnD", level |-> level,
     inventory |-> <<DocItem>>, currency |-> Currency(1, 2, 3, 4), notes |-> "thief",
     created_at |-> 0, updated_at |-> 0]

\* d with key k removed from its first item / from its currency
WithoutItemKey(d, k) == [d EXCEPT !.inventory = <<Without(d.inventory[1], k)>>]

WithoutCurrencyKey(d, k) == [d EXCEPT !.currency = Without(d.currency, k)]

\* documents that lack one key, at each of the three levels
MissingFieldDocs ==
    {Without(GoodDoc("m", 1), k) : k \in CharacterKeys \cup {"inventory", "currency"}}
    \cup {WithoutItemKey(GoodDoc("m", 1), k) : k \in ItemKeys}
    \cup {WithoutCurrencyKey(GoodDoc("m", 1), k) : k \in CurrencyKeys}

\* documents that carry one key the loader does not know, at each level
\* (pasa_phist.json carries "portrait": src/verify_portrait.py)
UnknownFieldDocs ==
    {With(GoodDoc("m", 1), "portrait", "portraits/pasa.png"),
     [GoodDoc("m", 1) EXCEPT !.inventory = <<With(DocItem, "charges", 3)>>],
     [GoodDoc("m", 1) EXCEPT !.currency = With(Currency(1, 2, 3, 4), "electrum", 1)]}

UnknownRarityDoc == [GoodDoc("m", 1) EXCEPT !.inventory = <<[DocItem EXCEPT !.rarity = [str |-> "MYTHIC"]]>>]

EmptyIdDoc == [GoodDoc("", 1) EXCEPT !.inventory = <<[DocItem EXCEPT !.id = ""]>>]

\* a document whose inventory holds two items under one id
DupItemsDoc ==
    [GoodDoc("m", 1) EXCEPT !.inventory = <<DocItem, [DocItem EXCEPT !.name = "Dagger", !.quantity = 1]>>]

Dir1(name, content) == [f \in {name} |-> content]

\* the save directory at start-up: empty; or a character "a" and a hand-made
\* copy of an older state of it; or pasa_phist.json, a character file not named
\* after its id, next to a corrupt file and a backup that is no .json
InitialDirs ==
    {EmptyMap,
     [f \in {JsonName("a"), JsonName("copy")} |->
        IF f = JsonName("a") THEN GoodDoc("a", 2) ELSE GoodDoc("a", 1)],
     [f \in {JsonName("pasa_phist"), JsonName("bad"), [stem |-> "pasa_phist", ext |-> ".bak"]} |->
        IF f = JsonName("bad") THEN Corrupt
        ELSE IF f = JsonName("pasa_phist")
        THEN With(GoodDoc("b", 1), "portrait", "portraits/pasa.png")
        ELSE With(GoodDoc("b", 1), "portrait", "portraits/pasa.png")]}

\* directories holding one hand-made document, m.json, next to a good one
DocDirs ==
    {[f \in {JsonName("g"), JsonName("m")} |-> IF f = JsonName("g") THEN GoodDoc("g", 1) ELSE d] :
        d \in MissingFieldDocs \cup UnknownFieldDocs
                \cup {UnknownRarityDoc, EmptyIdDoc, GoodDoc("m", 1), Corrupt, DupItemsDoc}}

(***************************************************************************)
(* Inputs of the collaborator                                              *)
(***************************************************************************)
Names == {"Ann"}

GameSystems == {"Generic"}

\* the fields the add-item form fills in; the id is a fresh uuid
ItemTemplates ==
    {[id |-> "", name |-> "Ring", description |-> "old", quantity |-> 2, weight |-> 1,
      value |-> 9, rarity |-> [enum |-> 5], equipped |-> FALSE, tags |-> <<"magic">>]}

\* what the last call was and how it ended: its arguments (id, path), the
\* fault injected, the result (ok: the boolean returned, or whether a
\* Character was returned; ret: the Characters or the Item returned), whether
\* it raised, and what held when it was called: id was registered, the file
\* at path existed, a load replaced a registered Character of another value
Outcome(op, id, path, fault, ok, raised, ret) ==
    [op |-> op, id |-> id, path |-> path, fault |-> fault, ok |-> ok,
     raised |-> raised, ret |-> ret,
     registered |-> id \in DOMAIN characters,
     existed |-> path \in DOMAIN files,
     replaced |-> op = "load" /\ ok /\ id \in DOMAIN characters /\ characters[id] # ret[1]]

(***************************************************************************)
(* State machine                                                           *)
(***************************************************************************)
Init ==
    /\ characters = EmptyMap
    /\ files \in InitialDirs
    /\ uuids = 0
    /\ now = 0
    /\ last = Outcome("init", "", NoPath, "none", TRUE, FALSE, <<>>)
    /\ window = NoWindow
    /\ other = EmptyMap

CreateCharacter ==
    \E name \in Names, game_system \in GameSystems :
        /\ uuids < MaxUuids
        /\ now < MaxClock
        /\ LET c == create_character(name, game_system, uuids, now + 1)
           IN  /\ characters' = With(characters, c.id, c)
               /\ last' = Outcome("create", c.id, NoPath, "none", TRUE, FALSE, <<c>>)
        /\ uuids' = uuids + 1
        /\ now' = now + 1
        /\ UNCHANGED <<files, window, other>>

\* the ids a caller may pass: the registered ones, the ones handed out earlier
\* in the run (a deleted character's id among them), and one it remembers
\* from an earlier session
KnownIds == DOMAIN characters \cup {"a"} \cup {uuid4(k) : k \in 1..uuids}

DeleteCharacter ==
    \E character_id \in KnownIds :
      \E fault \in IF character_id \in DOMAIN characters /\ SavePath(character_id) \in DOMAIN files
                   THEN BOOLEAN ELSE {FALSE} :
        LET r == delete_character(characters, files, character_id, fault)
        IN  /\ characters' = r.characters
            /\ files' = r.files
            /\ last' = Outcome("delete", character_id, SavePath(character_id),
                               IF fault THEN "remove" ELSE "none", r.ok, r.raised, <<>>)
            /\ UNCHANGED <<uuids, now, window, other>>

SaveCharacter ==
    \E character_id \in KnownIds :
      \E fault \in IF character_id \in DOMAIN characters THEN SaveFaults ELSE {"none"} :
        LET r == save_character(characters, files, character_id, fault)
        IN  /\ files' = r.files
            /\ last' = Outcome("save", character_id, SavePath(character_id),
                               fault, r.ok, FALSE, <<>>)
            /\ UNCHANGED <<characters, uuids, now, window, other>>

\* the paths a caller may pass: the files present and one that does not exist
Paths == DOMAIN files \cup {JsonName("nofile")}

UuidsLeft(path) ==
    LoadStage(files, path, FALSE) = "done" => uuids + UuidsNeeded(files[path]) <= MaxUuids

LoadCharacter ==
    \E file_path \in Paths :
      \E fault \in IF file_path \in DOMAIN files THEN BOOLEAN ELSE {FALSE} :
        /\ UuidsLeft(file_path)
        /\ LET r == load_character([characters |-> characters, uuids |-> uuids],
                                   files, file_path, fault)
           IN  /\ characters' = r.characters
               /\ uuids' = r.uuids
               /\ last' = Outcome("load", IF r.ret # <<>> THEN r.ret[1].id ELSE "", file_path,
                                  IF fault THEN "read" ELSE "none", r.ret # <<>>, FALSE, r.ret)
        /\ UNCHANGED <<files, now, window, other>>

\* os.listdir raises: nothing catches it
LoadAllListFault ==
    /\ last' = Outcome("load_all", "", NoPath, "list", FALSE, TRUE, <<>>)
    /\ UNCHANGED <<characters, files, uuids, now, window, other>>

\* listing: the order in which os.listdir returns the names
LoadAllCharacters ==
    \E listing \in Listings(DOMAIN files) :
        LET r == load_all_characters([characters |-> characters, uuids |-> uuids],
                                     files, listing)
        IN  /\ r.uuids <= MaxUuids
            /\ characters' = r.characters
            /\ uuids' = r.uuids
            /\ last' = Outcome("load_all", "", NoPath, "none", TRUE, FALSE, r.ret)
            /\ UNCHANGED <<files, now, window, other>>

AddItem ==
    \E id \in DOMAIN characters, template \in ItemTemplates :
        /\ uuids < MaxUuids
        /\ now < MaxClock
        /\ LET item == Item([template EXCEPT !.id = uuid4(uuids + 1)], uuids + 1)
           IN  /\ characters' = [characters EXCEPT ![id] = add_item(@, item, now + 1)]
               /\ last' = Outcome("add_item", id, NoPath, "none", TRUE, FALSE, <<item>>)
        /\ uuids' = uuids + 1
        /\ now' = now + 1
        /\ UNCHANGED <<files, window, other>>

RemoveItem ==
    \E id \in DOMAIN characters :
      \E item_id \in {characters[id].inventory[i].id : i \in DOMAIN characters[id].inventory}
                     \cup {"nope"} :
        LET i == FirstIndex(characters[id].inventory, item_id)
        IN  /\ i # 0 => now < MaxClock
            /\ characters' = [characters EXCEPT ![id] = remove_item(@, item_id, now + 1)]
            /\ now' = IF i = 0 THEN now ELSE now + 1
            /\ last' = Outcome("remove_item", id, NoPath, "none", i # 0, FALSE,
                               IF i = 0 THEN <<>> ELSE <<characters[id].inventory[i]>>)
            /\ UNCHANGED <<files, uuids, window, other>>

Next ==
    \/ CreateCharacter
    \/ DeleteCharacter
    \/ SaveCharacter
    \/ LoadCharacter
    \/ LoadAllCharacters
    \/ LoadAllListFault
    \/ AddItem
    \/ RemoveItem

Spec == Init /\ [][Next]_vars

(***************************************************************************)
(* The loader on hand-made documents                                       *)
(***************************************************************************)
InitDocs ==
    /\ characters = EmptyMap
    /\ files \in DocDirs
    /\ uuids = 0
    /\ now = 0
    /\ last = Outcome("init", "", NoPath, "none", TRUE, FALSE, <<>>)
    /\ window = NoWindow
    /\ other = EmptyMap

NextDocs ==
    \/ LoadCharacter
    \/ LoadAllCharacters
    \/ SaveCharacter
    \/ DeleteCharacter

SpecDocs == InitDocs /\ [][NextDocs]_vars

(***************************************************************************)
(* One manager on a save directory that starts empty: every file in it was *)
(* written by save_character                                               *)
(***************************************************************************)
InitFresh ==
    /\ characters = EmptyMap
    /\ files = EmptyMap
    /\ uuids = 0
    /\ now = 0
    /\ last = Outcome("init", "", NoPath, "none", TRUE, FALSE, <<>>)
    /\ window = NoWindow
    /\ other = EmptyMap

NextFresh ==
    \/ CreateCharacter
    \/ DeleteCharacter
    \/ SaveCharacter
    \/ LoadCharacter
    \/ LoadAllCharacters
    \/ LoadAllListFault
    \/ AddItem
    \/ RemoveItem

SpecFresh == InitFresh /\ [][NextFresh]_vars

(***************************************************************************)
(* Properties                                                              *)
(***************************************************************************)
AllCharacterKeys == CharacterKeys \cup {"inventory", "currency"}

\* C1: a load of <id>.json as a successful save of the registered Character c
\* leaves it returns a Character equal to c in every field and puts it where c
\* was; saving and loading it once more gives the same file and the same value.
C1_RoundTrip ==
    [][\A id \in DOMAIN characters :
          (/\ last'.op = "load" /\ last'.fault = "none" /\ last'.path = SavePath(id)
           /\ files = save_character(characters, files, id, "none").files)
          => /\ last'.ret = <<characters[id]>>
             /\ characters' = characters
             /\ LET dir2 == save_character(characters', files', id, "none").files
                IN  /\ dir2 = files
                    /\ load_character([characters |-> characters', uuids |-> uuids'],
                                      dir2, SavePath(id), FALSE).ret = <<characters[id]>>]_vars

\* a Character with two items (rarities RARE and LEGENDARY, non-empty tag
\* lists) was loaded back from the file its save wrote
C1_Witness ==
    /\ last.op = "load" /\ last.ok /\ last.fault = "none"
    /\ last.path = SavePath(last.id)
    /\ Len(last.ret[1].inventory) = 2
    /\ last.ret[1].updated_at > 0
    /\ files[last.path] = character_dict(last.ret[1])

\* C2: every key of the registry is the id of the Character it maps to.
C2_KeyIsId == \A k \in DOMAIN characters : characters[k].id = k

\* two Characters are registered, one of them loaded from a file that is not
\* named after its id
C2_Witness ==
    /\ Cardinality(DOMAIN characters) = 2
    /\ "b" \in DOMAIN characters
    /\ last.op \in {"load", "load_all"} /\ last.ok

\* C3 as stated: after delete_character(id) returns, id is no key, <id>.json
\* does not exist, and the result is True exactly when id was registered.
C3_AsStated ==
    last.op = "delete" /\ ~last.raised
    => /\ last.id \notin DOMAIN characters
       /\ SavePath(last.id) \notin DOMAIN files
       /\ last.ok <=> last.registered

\* C3 (amended): after delete_character(id) returns, id is no key and the
\* result is True exactly when id was registered; when it is True <id>.json
\* does not exist (also when there was no file to remove); when it is False
\* nothing has changed, so the file of an unregistered id stays.
C3_Delete ==
    [][last'.op = "delete" /\ ~last'.raised
       => /\ last'.id \notin DOMAIN characters'
          /\ last'.ok <=> last'.id \in DOMAIN characters
          /\ last'.ok => SavePath(last'.id) \notin DOMAIN files'
          /\ last'.ok => \A k \in DOMAIN characters \ {last'.id} :
                            k \in DOMAIN characters' /\ characters'[k] = characters[k]
          /\ ~last'.ok => files' = files /\ characters' = characters]_vars

\* a registered Character that has no file was deleted
C3_Witness == last.op = "delete" /\ last.ok /\ last.registered /\ ~last.existed

\* C4 as stated: no operation of the manager lets a fault escape to the caller.
C4_AsStated ==
    last.op \in {"save", "load", "load_all", "delete"} => ~last.raised

\* C5: save_character of an id that is not registered returns False and
\* changes neither the directory nor the registry.
C5_SaveUnknown ==
    [][last'.op = "save" /\ ~last'.registered
       => ~last'.ok /\ files' = files /\ characters' = characters]_vars

\* save_character was called with an unregistered id whose file exists
C5_Witness == last.op = "save" /\ ~last.registered /\ last.existed /\ ~last.ok

\* C6: a successful save_character(id) writes <id>.json and no other file; the
\* file holds every field of the registered Character, the items in inventory
\* order with the rarity as its name, and the currency; the registry and the
\* Character are as before.
C6_SaveFrame ==
    [][last'.op = "save" /\ last'.ok
       => LET id == last'.id
              c == characters[id]
              d == files'[SavePath(id)]
          IN  /\ DOMAIN files' = DOMAIN files \cup {SavePath(id)}
              /\ \A f \in DOMAIN files \ {SavePath(id)} : files'[f] = files[f]
              /\ characters' = characters
              /\ DOMAIN d = AllCharacterKeys
              /\ \A k \in CharacterKeys : d[k] = c[k]
              /\ d.currency = c.currency
              /\ Len(d.inventory) = Len(c.inventory)
              /\ \A i \in DOMAIN c.inventory :
                    /\ DOMAIN d.inventory[i] = ItemKeys
                    /\ \A k \in ItemKeys \ {"rarity"} : d.inventory[i][k] = c.inventory[i][k]
                    /\ d.inventory[i].rarity = [str |-> ItemRarity[c.inventory[i].rarity.enum]]]_vars

\* a Character with two items was saved into a directory that holds other files
C6_Witness ==
    /\ last.op = "save" /\ last.ok
    /\ Len(files[last.path].inventory) = 2
    /\ Cardinality(DOMAIN files) >= 3

\* C7: a successful load_character(path) returns one Character, built from the
\* document at path, which is from then on the registry's entry for its id,
\* whatever was registered there; the other entries and the files are as before.
C7_LoadRegisters ==
    [][last'.op = "load" /\ last'.ok
       => LET c == last'.ret[1]
              d == files[last'.path]
          IN  /\ Len(last'.ret) = 1
              /\ DOMAIN characters' = DOMAIN characters \cup {c.id}
              /\ characters'[c.id] = c
              /\ \A k \in DOMAIN characters \ {c.id} : characters'[k] = characters[k]
              /\ \A k \in CharacterKeys \ {"id"} : c[k] = d[k]
              /\ d.id # "" => c.id = d.id
              /\ \A k \in CurrencyKeys : c.currency[k] = d.currency[k]
              /\ Len(c.inventory) = Len(d.inventory)
              /\ files' = files]_vars

\* a load replaced a registered Character that had been changed since, while
\* another Character was registered
C7_Witness ==
    last.op = "load" /\ last.ok /\ last.replaced /\ Cardinality(DOMAIN characters) = 2

\* C8: a load_character that fails returns None and leaves the registry (and
\* the files) as they were.
C8_FailedLoad ==
    [][last'.op = "load" /\ ~last'.ok
       => last'.ret = <<>> /\ characters' = characters /\ files' = files]_vars

\* a load failed at its last statement before the registration (the currency),
\* with a Character registered
C8_Witness ==
    /\ last.op = "load" /\ ~last.ok /\ last.fault = "none" /\ last.existed
    /\ LoadStage(files, last.path, FALSE) = "currency"
    /\ characters # EmptyMap

\* a key is missing at the character, item or currency level of document d
LacksField(d) ==
    \/ ~(AllCharacterKeys \subseteq DOMAIN d)
    \/ "inventory" \in DOMAIN d /\ \E i \in DOMAIN d.inventory : ~(ItemKeys \subseteq DOMAIN d.inventory[i])
    \/ "currency" \in DOMAIN d /\ ~(CurrencyKeys \subseteq DOMAIN d.currency)

\* document d carries a key the format does not have, at one of the levels
HasUnknownField(d) ==
    \/ ~(DOMAIN d \subseteq AllCharacterKeys)
    \/ "inventory" \in DOMAIN d /\ \E i \in DOMAIN d.inventory : ~(DOMAIN d.inventory[i] \subseteq ItemKeys)
    \/ "currency" \in DOMAIN d /\ ~(DOMAIN d.currency \subseteq CurrencyKeys)

\* the last call was load_character of a readable file that holds a JSON object
LoadedObject ==
    /\ last.op = "load" /\ last.fault = "none" /\ last.existed
    /\ IsObject(files[last.path])

\* C9 as stated: load_character rejects every document with a missing field or
\* an unknown field.
C9_AsStated ==
    LoadedObject /\ (LacksField(files[last.path]) \/ HasUnknownField(files[last.path]))
    => ~last.ok

\* C9 (amended): load_character rejects every document that lacks a field at
\* the character, item or currency level; a document that has every field and
\* an unknown one besides is loaded, and the unknown field is dropped.
C9_MissingRejected ==
    LoadedObject
    => LET d == files[last.path]
       IN  /\ LacksField(d) => ~last.ok /\ last.ret = <<>>
           /\ ~LacksField(d) /\ HasUnknownField(d) /\ RarityStageOk(d)
              => /\ last.ok
                 /\ DOMAIN last.ret[1] = AllCharacterKeys
                 /\ \A i \in DOMAIN last.ret[1].inventory :
                       DOMAIN last.ret[1].inventory[i] = ItemKeys
                 /\ DOMAIN last.ret[1].currency = CurrencyKeys

\* a document that lacks a key of its currency was rejected
C9_Witness ==
    /\ LoadedObject /\ ~last.ok
    /\ AllCharacterKeys \subseteq DOMAIN files[last.path]
    /\ ~(CurrencyKeys \subseteq DOMAIN files[last.path].currency)

\* what load_character returns for file f of the directory, taken alone
LoadsAlone(f) == load_character([characters |-> EmptyMap, uuids |-> 0], files, f, FALSE).ret

MaxItems == 2

\* items as load_character builds them; two of them carry the same id, which
\* a hand-made file can hold
ItemPool ==
    {[id |-> "i1", name |-> "Sword", description |-> "sharp", quantity |-> 3, weight |-> 2,
      value |-> 5, rarity |-> [enum |-> 3], equipped |-> TRUE, tags |-> <<"weapon">>],
     [id |-> "i2", name |-> "Rope", description |-> "", quantity |-> 1, weight |-> 10,
      value |-> 1, rarity |-> [enum |-> 1], equipped |-> FALSE, tags |-> <<>>],
     [id |-> "i1", name |-> "Shield", description |-> "", quantity |-> 2, weight |-> 6,
      value |-> 0, rarity |-> [enum |-> 1], equipped |-> FALSE, tags |-> <<>>]}

Inventories == UNION {[1..n -> ItemPool] : n \in 0..MaxItems}

InitItems ==
    /\ \E inventory \in Inventories :
          characters = [id \in {"c"} |->
                          [Character("c", "Ann", "Generic", 1, "", 0, 0, 0)
                              EXCEPT !.inventory = inventory]]
    /\ files = EmptyMap
    /\ uuids = 0
    /\ now = 0
    /\ last = Outcome("init", "", NoPath, "none", TRUE, FALSE, <<>>)
    /\ window = NoWindow
    /\ other = EmptyMap

\* character.total_weight(): the value is returned, nothing is assigned
TotalWeight ==
    \E id \in DOMAIN characters :
        /\ last' = Outcome("total_weight", id, NoPath, "none", TRUE, FALSE,
                           <<total_weight(characters[id])>>)
        /\ UNCHANGED <<characters, files, uuids, now, window, other>>

TotalValue ==
    \E id \in DOMAIN characters :
        /\ last' = Outcome("total_value", id, NoPath, "none", TRUE, FALSE,
                           <<total_value(characters[id])>>)
        /\ UNCHANGED <<characters, files, uuids, now, window, other>>

NextItems ==
    \/ AddItem
    \/ RemoveItem
    \/ TotalWeight
    \/ TotalValue

SpecItems == InitItems /\ [][NextItems]_vars

(***************************************************************************)
(* Currency: total_in_copper, the converter of the main window and the     *)
(* currency editor of the text interface                                   *)
(***************************************************************************)
\* (a total that takes gold for silver)
total_in_copper_swapped(currency) ==
    currency.copper + (currency.gold * 10) + (currency.silver * 100) + (currency.platinum * 1000)

\* Currency.total_in_copper
total_in_copper(currency) ==
    currency.copper + (currency.silver * 10) + (currency.gold * 100) + (currency.platinum * 1000)

copper_values == [copper |-> 1, silver |-> 10, gold |-> 100, platinum |-> 1000]

\* (a converter that rounds to the nearest whole coin)
converted_rounded(amount, from_type, to_type) ==
    (2 * amount * copper_values[from_type] + copper_values[to_type])
        \div (2 * copper_values[to_type])

\* int(result), result = amount * copper_values[from_type] / copper_values[to_type]:
\* the quotient is not negative (the spin box gives amount >= 1), so int()
\* drops its fraction
converted(amount, from_type, to_type) ==
    (amount * copper_values[from_type]) \div copper_values[to_type]

\* (a converter that never takes more than the balance holds)
convert_currency_guarded(currency, amount, from_type, to_type) ==
    LET taken      == IF currency[from_type] < amount THEN 0 ELSE amount
        subtracted == [currency EXCEPT ![from_type] = @ - taken]
    IN  [subtracted EXCEPT ![to_type] = @ + converted(amount, from_type, to_type)]

\* the two if/elif chains of convert_currency after the user confirmed:
\* subtract from the one field, then add to the other
convert_currency(currency, amount, from_type, to_type) ==
    LET subtracted == [currency EXCEPT ![from_type] = @ - amount]
    IN  [subtracted EXCEPT ![to_type] = @ + converted(amount, from_type, to_type)]

\* TextInterface.edit_currency: a negative value is refused
edit_currency(currency, currency_type, new_value) ==
    IF new_value < 0 THEN currency ELSE [currency EXCEPT ![currency_type] = new_value]

\* largest number of coins, owned or owed, of each denomination
MaxCopper == 13
MaxSilver == 2
MaxGold == 1
MaxPlatinum == 1

MaxCoins == [copper |-> MaxCopper, silver |-> MaxSilver, gold |-> MaxGold,
             platinum |-> MaxPlatinum]

\* what the user types into the amount box of the converter and into the
\* currency editor
Amounts == {1, 6, 25}

EditValues == {0 - 1, 0, 2}

InBounds(currency) == \A k \in CurrencyKeys : currency[k] \in (0 - MaxCoins[k])..MaxCoins[k]

CurrencyOutcome(op, id, amount, from_type, to_type, ok, ret) ==
    [op |-> op, id |-> id, amount |-> amount, from_type |-> from_type,
     to_type |-> to_type, ok |-> ok, ret |-> ret]

\* one character, as create_character leaves it or as it was loaded from a file
InitCurrency ==
    /\ \E currency \in {Currency(0, 0, 0, 0), Currency(1, 1, 2, 4)} :
          characters = [id \in {uuid4(1)} |->
                          [create_character("Ann", "Generic", 0, 1) EXCEPT !.currency = currency]]
    /\ files = EmptyMap
    /\ uuids = 1
    /\ now = 1
    /\ last = Outcome("init", "", NoPath, "none", TRUE, FALSE, <<>>)
    /\ window = NoWindow
    /\ other = EmptyMap

\* MainWindow.convert_currency; reply: the answer to "Apply Conversion?"
ConvertCurrency ==
    \E id \in DOMAIN characters, amount \in Amounts, reply \in BOOLEAN :
      \E from_type \in CurrencyKeys, to_type \in CurrencyKeys :
        LET currency == IF reply
                        THEN convert_currency(characters[id].currency, amount, from_type, to_type)
                        ELSE characters[id].currency
        IN  /\ InBounds(currency)
            /\ characters' = [characters EXCEPT ![id].currency = currency]
            /\ last' = CurrencyOutcome("convert", id, amount, from_type, to_type, reply, <<>>)
            /\ UNCHANGED <<files, uuids, now, window, other>>

\* TextInterface.edit_currency
EditCurrency ==
    \E id \in DOMAIN characters, currency_type \in CurrencyKeys, new_value \in EditValues :
        /\ InBounds(edit_currency(characters[id].currency, currency_type, new_value))
        /\ characters' = [characters EXCEPT
                             ![id].currency = edit_currency(@, currency_type, new_value)]
        /\ last' = CurrencyOutcome("edit_currency", id, new_value, currency_type,
                                   currency_type, new_value >= 0, <<>>)
        /\ UNCHANGED <<files, uuids, now, window, other>>

\* currency.total_in_copper(): the value is returned, nothing is assigned
TotalInCopper ==
    \E id \in DOMAIN characters :
        /\ last' = CurrencyOutcome("total_in_copper", id, 0, "", "", TRUE,
                                   <<total_in_copper(characters[id].currency)>>)
        /\ UNCHANGED <<characters, files, uuids, now, window, other>>

NextCurrency ==
    \/ ConvertCurrency
    \/ EditCurrency
    \/ TotalInCopper

SpecCurrency == InitCurrency /\ [][NextCurrency]_vars

(***************************************************************************)
(* Properties of the manager on a directory that starts empty (SpecFresh)  *)
(***************************************************************************)
\* every id a call of the run can name
AllIds == {"a"} \cup {uuid4(k) : k \in 1..MaxUuids}

\* delete_character(id) has just returned True
DeletedNow(id) == last.op = "delete" /\ last.id = id /\ last.ok

\* id is no registry key, <id>.json does not exist, and a save_character(id)
\* just made returned False
Gone(id) ==
    /\ id \notin DOMAIN characters
    /\ SavePath(id) \notin DOMAIN files
    /\ (last.op = "save" /\ last.id = id => ~last.ok)

\* C11: deletion is terminal.  Once delete_character(id) has returned True,
\* in every later state of the run (whatever create, save, load, load_all,
\* add_item, remove_item and delete calls follow) id is not a registry key,
\* <id>.json does not exist and save_character(id) returns False.
C11_DeletionTerminal == \A id \in AllIds : [](DeletedNow(id) => []Gone(id))

\* a character was created, deleted, another one was created after it, and a
\* save of the deleted id was then refused
C11_Witness ==
    /\ last.op = "save" /\ last.id = uuid4(1) /\ ~last.ok
    /\ uuid4(1) \notin DOMAIN characters
    /\ SavePath(uuid4(1)) \notin DOMAIN files
    /\ uuid4(2) \in DOMAIN characters

\* C12 as stated: <id>.json exists exactly when some save_character(id)
\* succeeded and no delete_character(id) followed it.  Step by step, from the
\* empty directory: a file appears or changes only in a successful save of its
\* id, exists after every successful save of its id, disappears only in a
\* delete of its id, does not exist after a delete of its id; and create,
\* add_item, remove_item and load leave the directory as it is.
C12_AsStated ==
    [][/\ \A id \in AllIds :
            /\ (SavePath(id) \in DOMAIN files'
                   /\ (SavePath(id) \notin DOMAIN files \/ files'[SavePath(id)] # files[SavePath(id)])
                 => last'.op = "save" /\ last'.id = id /\ last'.ok)
            /\ (last'.op = "save" /\ last'.id = id /\ last'.ok
                 => SavePath(id) \in DOMAIN files')
            /\ (SavePath(id) \in DOMAIN files /\ SavePath(id) \notin DOMAIN files'
                 => last'.op = "delete" /\ last'.id = id)
            /\ (last'.op = "delete" /\ last'.id = id
                 => SavePath(id) \notin DOMAIN files')
       /\ (last'.op \in {"create", "add_item", "remove_item", "load", "load_all"}
            => files' = files)]_vars

\* C13: create_character returns normally a Character whose id was no key of
\* the registry, with the name and game system given, an empty inventory and
\* all-zero Currency; the registry afterwards is the one before plus that
\* Character under its id, every other entry unchanged.
C13_Create ==
    [][last'.op = "create"
       => /\ last'.ok /\ ~last'.raised /\ Len(last'.ret) = 1
          /\ LET c == last'.ret[1]
             IN  /\ c.id = last'.id
                 /\ c.id \notin DOMAIN characters
                 /\ c.name \in Names /\ c.game_system \in GameSystems
                 /\ c.inventory = <<>>
                 /\ c.currency = Currency(0, 0, 0, 0)
                 /\ DOMAIN characters' = DOMAIN characters \cup {c.id}
                 /\ Cardinality(DOMAIN characters') = Cardinality(DOMAIN characters) + 1
                 /\ characters'[c.id] = c
                 /\ \A k \in DOMAIN characters : characters'[k] = characters[k]]_vars

\* a second character was created next to a registered one
C13_Witness ==
    /\ last.op = "create" /\ last.id = uuid4(2)
    /\ DOMAIN characters = {uuid4(1), uuid4(2)}
    /\ characters[uuid4(2)] = last.ret[1]

(***************************************************************************)
(* Properties of the inventory (SpecItems)                                 *)
(***************************************************************************)
ItemIds(inventory) == {inventory[i].id : i \in DOMAIN inventory}

\* the items a caller may add: the pool's, and the add-item form's with a
\* fresh id
Addable == ItemPool \cup {Item(template, uuids) : template \in ItemTemplates}

\* C14: for the inventory of every reachable Character and every item whose
\* id does not occur in it, add_item(item) followed by remove_item(item.id)
\* finds and returns that item and leaves the inventory sequence as it was
\* before the add, with no item of that id in it.
C14_AddRemove ==
    \A id \in DOMAIN characters : \A item \in Addable :
        item.id \notin ItemIds(characters[id].inventory)
        => LET c1 == add_item(characters[id], item, now + 1)
               i  == FirstIndex(c1.inventory, item.id)
               c2 == remove_item(c1, item.id, now + 2)
           IN  /\ i # 0
               /\ c1.inventory[i] = item
               /\ c2.inventory = characters[id].inventory
               /\ item.id \notin ItemIds(c2.inventory)

\* the item added in the run was removed again from an inventory of two
\* other items
C14_Witness ==
    /\ last.op = "remove_item" /\ last.ok
    /\ last.ret[1].id = uuid4(1)
    /\ Len(characters[last.id].inventory) = 2
    /\ uuid4(1) \notin ItemIds(characters[last.id].inventory)

\* C15: a remove_item whose id matches no item (it reports not found) returns
\* None and leaves the Character (inventory, updated_at and every other
\* field), and the clock, as they were.
C15_RemoveMissing ==
    [][last'.op = "remove_item" /\ ~last'.ok
       => /\ last'.ret = <<>>
          /\ characters' = characters
          /\ now' = now]_vars

\* a remove of an unknown id was made on an inventory that is not empty, after
\* the Character had been changed
C15_Witness ==
    /\ last.op = "remove_item" /\ ~last.ok /\ last.ret = <<>>
    /\ characters[last.id].inventory # <<>>
    /\ characters[last.id].updated_at = 1
    /\ now = 1

RECURSIVE SumOver(_, _, _)
SumOver(inventory, field, positions) ==
    IF positions = {} THEN 0
    ELSE LET i == CHOOSE i \in positions : \A j \in positions : i >= j
         IN  inventory[i].quantity * inventory[i][field]
               + SumOver(inventory, field, positions \ {i})

\* c with the equipped flag of every item inverted
Unequipped(c) ==
    [c EXCEPT !.inventory = [i \in DOMAIN c.inventory |->
                                [c.inventory[i] EXCEPT !.equipped = ~@]]]

\* C17: total_weight() returns the sum over the current inventory of
\* quantity x weight and total_value() the sum of quantity x value: 0 for an
\* empty inventory, quantity x field for a single item, the same whatever
\* the equipped flags are; the call changes nothing.
C17_Totals ==
    [][last'.op \in {"total_weight", "total_value"}
       => LET c     == characters[last'.id]
              field == IF last'.op = "total_weight" THEN "weight" ELSE "value"
              ret   == last'.ret[1]
          IN  /\ ret = SumOver(c.inventory, field, DOMAIN c.inventory)
              /\ (c.inventory = <<>> => ret = 0)
              /\ (Len(c.inventory) = 1 => ret = c.inventory[1].quantity * c.inventory[1][field])
              /\ ret = (IF last'.op = "total_weight"
                        THEN total_weight(Unequipped(c)) ELSE total_value(Unequipped(c)))
              /\ characters' = characters /\ files' = files
              /\ uuids' = uuids /\ now' = now]_vars

\* the weight of three swords of weight 2 and one unequipped rope of weight
\* 10 was asked for after an item had been removed
C17_Witness ==
    /\ last.op = "total_weight" /\ last.ret = <<16>>
    /\ Len(characters[last.id].inventory) = 2
    /\ \E i \in DOMAIN characters[last.id].inventory : ~characters[last.id].inventory[i].equipped
    /\ now > 0

(***************************************************************************)
(* Properties of the currency (SpecCurrency)                               *)
(***************************************************************************)
\* the rates the specification gives
Rate == [copper |-> 1, silver |-> 10, gold |-> 100, platinum |-> 1000]

\* floor(n / d) for n >= 0, d > 0
Floor(n, d) == CHOOSE q \in 0..n : q * d <= n /\ n < (q + 1) * d

\* C18: total_in_copper() returns copper + 10*silver + 100*gold +
\* 1000*platinum (1234 for platinum 1, gold 2, silver 3, copper 4) and
\* changes no field.
C18_TotalInCopper ==
    [][last'.op = "total_in_copper"
       => LET currency == characters[last'.id].currency
          IN  /\ last'.ret = <<currency.copper + 10 * currency.silver
                                 + 100 * currency.gold + 1000 * currency.platinum>>
              /\ total_in_copper(Currency(1, 2, 3, 4)) = 1234
              /\ characters' = characters]_vars

\* the total of a purse with coins of every denomination was asked for after
\* a conversion had left copper owed
C18_Witness ==
    /\ last.op = "total_in_copper"
    /\ \E id \in DOMAIN characters :
          /\ characters[id].currency = Currency(1, 1, 2, 0 - 2)
          /\ last.ret = <<1118>>

\* C19: an applied conversion of amount a from f to t takes exactly a from
\* the f balance and adds floor(a*rate(f)/rate(t)) to the t balance (both to
\* the one balance when f = t), leaves the other denominations and the rest
\* of the Character unchanged, and does so whatever the f balance is; 25
\* copper to gold adds 0 gold and takes 25 copper.
C19_Convert ==
    [][last'.op = "convert" /\ last'.ok
       => LET a   == last'.amount
              f   == last'.from_type
              t   == last'.to_type
              old == characters[last'.id]
              new == characters'[last'.id]
          IN  /\ \A k \in CurrencyKeys :
                    new.currency[k] = old.currency[k]
                                        - (IF k = f THEN a ELSE 0)
                                        + (IF k = t THEN Floor(a * Rate[f], Rate[t]) ELSE 0)
              /\ new = [old EXCEPT !.currency = new.currency]
              /\ (a = 25 /\ f = "copper" /\ t = "gold"
                    => new.currency = [old.currency EXCEPT !.copper = @ - 25])]_vars

\* 25 copper were converted to gold by a character who had fewer than 25:
\* no gold was added and the copper balance is negative
C19_Witness ==
    /\ last.op = "convert" /\ last.ok
    /\ last.amount = 25 /\ last.from_type = "copper" /\ last.to_type = "gold"
    /\ characters[last.id].currency.copper < 0
    /\ characters[last.id].currency.gold = 1

\* C20 as stated: in every state each of platinum, gold, silver and copper of
\* every Character is a non-negative integer.
C20_AsStated ==
    \A id \in DOMAIN characters : \A k \in CurrencyKeys :
        characters[id].currency[k] \in Nat

\* C28: an applied conversion of amount a from f to t changes
\* total_in_copper by exactly -((a*rate(f)) mod rate(t)): never upwards, by
\* nothing exactly when a*rate(f) is a multiple of rate(t), which is so
\* whenever f = t or f is the larger denomination.
C28_TotalChange ==
    [][last'.op = "convert" /\ last'.ok
       => LET n      == last'.amount * Rate[last'.from_type]
              r      == Rate[last'.to_type]
              change == total_in_copper(characters'[last'.id].currency)
                          - total_in_copper(characters[last'.id].currency)
          IN  /\ change = 0 - (n % r)
              /\ change <= 0
              /\ (change = 0 <=> \E q \in 0..n : q * r = n)
              /\ (last'.from_type = last'.to_type \/ Rate[last'.from_type] > r
                    => change = 0)]_vars

\* 25 copper were converted to 2 silver, five copper being lost, by a
\* character who then owes copper
C28_Witness ==
    /\ last.op = "convert" /\ last.ok
    /\ last.amount = 25 /\ last.from_type = "copper" /\ last.to_type = "silver"
    /\ characters[last.id].currency.copper < 0
    /\ total_in_copper(characters[last.id].currency) < 0

(***************************************************************************)
(* Properties of saving, deleting and loading whole directories            *)
(***************************************************************************)
\* C25 as stated: a save_character(id) that returns False while a
\* previously saved <id>.json exists leaves that file holding what it held.
C25_AsStated ==
    [][last'.op = "save" /\ ~last'.ok
         /\ last'.path \in DOMAIN files /\ IsObject(files[last'.path])
       => /\ last'.path \in DOMAIN files'
          /\ files'[last'.path] = files[last'.path]]_vars

\* C26 as stated: when delete_character(id) has returned True, no .json file
\* of the directory holds a character with that id.
C26_AsStated ==
    last.op = "delete" /\ last.ok
    => \A f \in DOMAIN files :
          EndsWithJson(f) /\ IsObject(files[f]) => files[f].id # last.id

\* C27 as stated: no two Characters of the list load_all_characters returns
\* have the same id, and each of them is the Character registered under its
\* id.
C27_AsStated ==
    last.op = "load_all" /\ ~last.raised
    => /\ \A i, j \in DOMAIN last.ret : last.ret[i].id = last.ret[j].id => i = j
       /\ \A i \in DOMAIN last.ret :
             /\ last.ret[i].id \in DOMAIN characters
             /\ characters[last.ret[i].id] = last.ret[i]

NoCharacter == [none |-> TRUE]

Registered(id) == [registered |-> id]

Unregistered(c) == [object |-> c]

IsRegistered(cur) == DOMAIN cur = {"registered"}

\* the value of the object self.current_character refers to
current_character(w, chars) ==
    IF IsRegistered(w.current_character)
    THEN chars[w.current_character.registered]
    ELSE w.current_character.object

\* QSpinBox.setValue keeps the value inside the range of the box
setValue(v, lo, hi) == IF v < lo THEN lo ELSE IF v > hi THEN hi ELSE v

ClearedForm ==
    [name |-> "", game_system |-> "", level |-> 1, currency |-> Currency(0, 0, 0, 0),
     notes |-> ""]

NoCharacterLoaded == "No character loaded"

\* f"Last saved: {saved_dt.strftime(...)}"
LastSaved(updated_at) == "Last saved: " \o ToString(updated_at)

update_status(w, chars) ==
    [w EXCEPT !.last_saved_label =
        IF w.current_character = NoCharacter THEN NoCharacterLoaded
        ELSE LastSaved(current_character(w, chars).updated_at)]

update_ui(w, chars) ==
    IF w.current_character = NoCharacter
    THEN [w EXCEPT !.form = ClearedForm, !.last_saved_label = NoCharacterLoaded]
    ELSE LET c == current_character(w, chars)
         IN  update_status(
               [w EXCEPT !.form =
                   [name |-> c.name, game_system |-> c.game_system,
                    level |-> setValue(c.level, 1, 99),
                    currency |-> [k \in CurrencyKeys |-> setValue(c.currency[k], 0, 999999)],
                    notes |-> c.notes]],
               chars)

\* the slot of character_combo.currentIndexChanged
on_character_selected(w, chars, index) ==
    LET character_id == w.character_combo[index + 1]
        found == IF index < 0 \/ character_id \notin DOMAIN chars
                 THEN NoCharacter ELSE Registered(character_id)
    IN  update_ui([w EXCEPT !.index = index, !.current_character = found], chars)

\* QComboBox.setCurrentIndex: the signal is emitted only when the index changes
setCurrentIndex(w, chars, index) ==
    IF index = w.index THEN w ELSE on_character_selected(w, chars, index)

\* QComboBox.findData: the first index with that data, -1 for none
findData(w, data) ==
    IF \E i \in DOMAIN w.character_combo : w.character_combo[i] = data
    THEN (CHOOSE i \in DOMAIN w.character_combo :
             /\ w.character_combo[i] = data
             /\ \A j \in 1..(i - 1) : w.character_combo[j] # data) - 1
    ELSE 0 - 1

\* QComboBox.addItem: the first item of an empty box becomes the current one
addItem(w, chars, data) ==
    LET added == [w EXCEPT !.character_combo = Append(@, data)]
    IN  IF w.character_combo = <<>> THEN setCurrentIndex(added, chars, 0) ELSE added

\* QComboBox.removeItem of the current item: the item that takes its place,
\* or the last one, becomes current, and the signal is emitted
removeItem(w, chars, index) ==
    LET combo == Pop(w.character_combo, index + 1)
        next  == IF Len(combo) = 0 THEN 0 - 1
                 ELSE IF index > Len(combo) - 1 THEN Len(combo) - 1 ELSE index
    IN  on_character_selected([w EXCEPT !.character_combo = combo], chars, next)

\* an assignment through self.current_character: the registry shows it when
\* the object is the registered one
assign(w, chars, c) ==
    IF IsRegistered(w.current_character)
    THEN [characters |-> [chars EXCEPT ![w.current_character.registered] = c], window |-> w]
    ELSE [characters |-> chars,
          window |-> [w EXCEPT !.current_character = Unregistered(c)]]

\* the manager put other objects under the ids of replaced, or dropped them:
\* self.current_character still refers to the object it referred to
keep_object(w, chars, replaced) ==
    IF IsRegistered(w.current_character) /\ w.current_character.registered \in replaced
    THEN [w EXCEPT !.current_character = Unregistered(current_character(w, chars))]
    ELSE w

\* (a save that leaves the time stamp alone)
copy_form_unstamped(c, form, t) ==
    [c EXCEPT !.name = form.name, !.game_system = form.game_system,
              !.level = form.level, !.currency = form.currency, !.notes = form.notes]

\* MainWindow.save_character before it calls the manager: the widgets are
\* copied into the character and updated_at is set to datetime.now()
copy_form(c, form, t) ==
    [c EXCEPT !.name = form.name, !.game_system = form.game_system,
              !.level = form.level, !.currency = form.currency, !.notes = form.notes,
              !.updated_at = t]

RECURSIVE addItems(_, _, _, _)
addItems(w, chars, loaded, i) ==
    IF i > Len(loaded) THEN w
    ELSE addItems(addItem(w, chars, loaded[i].id), chars, loaded, i + 1)

\* MainWindow.load_characters on the window init_ui built
load_characters(chars, loaded) ==
    addItems([current_character |-> NoCharacter, character_combo |-> <<>>,
              index |-> 0 - 1, form |-> ClearedForm,
              last_saved_label |-> NoCharacterLoaded],
             chars, loaded, 1)

\* MainWindow(): a new manager, then load_characters()
InitWindow ==
    /\ files \in InitialDirs
    /\ \E listing \in Listings(DOMAIN files) :
          LET r == load_all_characters([characters |-> EmptyMap, uuids |-> 0], files, listing)
          IN  /\ characters = r.characters
              /\ uuids = r.uuids
              /\ window = load_characters(r.characters, r.ret)
    /\ now = 0
    /\ last = Outcome("init", "", NoPath, "none", TRUE, FALSE, <<>>)
    /\ other = EmptyMap

Levels == {1, 2}

\* the user turns the level box
EditLevel ==
    \E level \in Levels :
        /\ window.current_character # NoCharacter
        /\ window' = [window EXCEPT !.form.level = level]
        /\ last' = Outcome("edit_level", "", NoPath, "none", TRUE, FALSE, <<>>)
        /\ UNCHANGED <<characters, files, uuids, now, other>>

\* the user picks another entry of the combo box
SelectCharacter ==
    \E index \in 0..(Len(window.character_combo) - 1) :
        /\ index # window.index
        /\ window' = setCurrentIndex(window, characters, index)
        /\ last' = Outcome("select", window.character_combo[index + 1], NoPath, "none",
                           TRUE, FALSE, <<>>)
        /\ UNCHANGED <<characters, files, uuids, now, other>>

\* View > Refresh: update_ui
Refresh ==
    /\ window' = update_ui(window, characters)
    /\ last' = Outcome("refresh", "", NoPath, "none", TRUE, FALSE, <<>>)
    /\ UNCHANGED <<characters, files, uuids, now, other>>

\* MainWindow.create_new_character, both dialogs accepted
NewCharacter ==
    \E name \in Names, game_system \in GameSystems :
        /\ uuids < MaxUuids
        /\ now < MaxClock
        /\ LET c     == create_character(name, game_system, uuids, now + 1)
               chars == With(characters, c.id, c)
               added == addItem(window, chars, c.id)
           IN  /\ characters' = chars
               /\ window' = setCurrentIndex(added, chars, findData(added, c.id))
               /\ last' = Outcome("new_character", c.id, NoPath, "none", TRUE, FALSE, <<c>>)
        /\ uuids' = uuids + 1
        /\ now' = now + 1
        /\ UNCHANGED <<files, other>>

\* MainWindow.delete_character, the question answered with Yes
DeleteCurrent ==
    /\ window.current_character # NoCharacter
    /\ LET character_id == current_character(window, characters).id
       IN  \E fault \in IF character_id \in DOMAIN characters
                            /\ SavePath(character_id) \in DOMAIN files
                         THEN BOOLEAN ELSE {FALSE} :
             LET r    == delete_character(characters, files, character_id, fault)
                 kept == keep_object(window, characters,
                                     DOMAIN characters \ DOMAIN r.characters)
             IN  /\ characters' = r.characters
                 /\ files' = r.files
                 /\ window' = IF r.ok THEN removeItem(kept, r.characters, kept.index)
                              ELSE kept
                 /\ last' = Outcome("delete_current", character_id, SavePath(character_id),
                                    IF fault THEN "remove" ELSE "none", r.ok, r.raised, <<>>)
    /\ UNCHANGED <<uuids, now, other>>

\* MainWindow.save_character
SaveCurrent ==
    /\ window.current_character # NoCharacter
    /\ now < MaxClock
    /\ LET c == copy_form(current_character(window, characters), window.form, now + 1)
           a == assign(window, characters, c)
       IN  \E fault \in IF c.id \in DOMAIN characters THEN SaveFaults ELSE {"none"} :
             LET r == save_character(a.characters, files, c.id, fault)
             IN  /\ characters' = a.characters
                 /\ files' = r.files
                 /\ window' = IF r.ok THEN update_status(a.window, a.characters)
                              ELSE a.window
                 /\ last' = Outcome("save_current", c.id, SavePath(c.id), fault, r.ok,
                                    FALSE, <<c>>)
    /\ now' = now + 1
    /\ UNCHANGED <<uuids, other>>

\* MainWindow.open_character, a file of the directory chosen in the dialog
OpenCharacter ==
    \E file_path \in DOMAIN files :
        /\ UuidsLeft(file_path)
        /\ LET r    == load_character([characters |-> characters, uuids |-> uuids],
                                      files, file_path, FALSE)
               kept == keep_object(window, characters,
                                   {r.ret[i].id : i \in DOMAIN r.ret})
               index == findData(kept, r.ret[1].id)
               added == IF index < 0 THEN addItem(kept, r.characters, r.ret[1].id) ELSE kept
           IN  /\ characters' = r.characters
               /\ uuids' = r.uuids
               /\ window' = IF r.ret = <<>> THEN kept
                            ELSE setCurrentIndex(added, r.characters,
                                                 IF index < 0
                                                 THEN Len(added.character_combo) - 1
                                                 ELSE index)
               /\ last' = Outcome("open", IF r.ret # <<>> THEN r.ret[1].id ELSE "", file_path,
                                  "none", r.ret # <<>>, FALSE, r.ret)
        /\ UNCHANGED <<files, now, other>>

\* MainWindow.add_item with a name in the form
AddToCurrent ==
    \E template \in ItemTemplates :
        /\ window.current_character # NoCharacter
        /\ uuids < MaxUuids
        /\ now < MaxClock
        /\ LET item == Item([template EXCEPT !.id = uuid4(uuids + 1)], uuids + 1)
               c    == add_item(current_character(window, characters), item, now + 1)
               a    == assign(window, characters, c)
           IN  /\ characters' = a.characters
               /\ window' = a.window
               /\ last' = Outcome("add_to_current", c.id, NoPath, "none", TRUE, FALSE, <<item>>)
        /\ uuids' = uuids + 1
        /\ now' = now + 1
        /\ UNCHANGED <<files, other>>

\* MainWindow.remove_item, reached from the Delete button of a table row
RemoveFromCurrent ==
    /\ window.current_character # NoCharacter
    /\ now < MaxClock
    /\ LET before == current_character(window, characters)
       IN  \E i \in DOMAIN before.inventory :
             LET c == remove_item(before, before.inventory[i].id, now + 1)
                 a == assign(window, characters, c)
             IN  /\ characters' = a.characters
                 /\ window' = a.window
                 /\ last' = Outcome("remove_from_current", c.id, NoPath, "none", TRUE, FALSE,
                                    <<before.inventory[FirstIndex(before.inventory,
                                                                  before.inventory[i].id)]>>)
    /\ now' = now + 1
    /\ UNCHANGED <<files, uuids, other>>

NextWindow ==
    \/ EditLevel
    \/ SelectCharacter
    \/ Refresh
    \/ NewCharacter
    \/ DeleteCurrent
    \/ SaveCurrent
    \/ OpenCharacter
    \/ AddToCurrent
    \/ RemoveFromCurrent

SpecWindow == InitWindow /\ [][NextWindow]_vars

C22_CreatedAt ==
    [][/\ last'.op # "open"
          => \A id \in DOMAIN characters \cap DOMAIN characters' :
                characters'[id].created_at = characters[id].created_at
       /\ /\ last'.op \in {"add_to_current", "remove_from_current", "save_current",
                           "edit_level", "refresh"}
          /\ window.current_character # NoCharacter
          => current_character(window', characters').created_at
               = current_character(window, characters).created_at
       /\ last'.op = "save_current" /\ last'.ok
          => files'[last'.path].created_at = characters[last'.id].created_at
       /\ last'.op = "open" /\ last'.ok
          => last'.ret[1].created_at = files[last'.path].created_at]_vars

\* a character created at the first reading of the clock, saved at the
\* second, was opened from its file
C22_Witness ==
    /\ last.op = "open" /\ last.ok
    /\ last.id = uuid4(1)
    /\ last.ret[1].created_at = 1
    /\ last.ret[1].updated_at = 2
    /\ characters[last.id].created_at = 1

\* C24 as stated: whenever the window has a current character, it is the
\* object registered in the manager under its id.
C24_AsStated ==
    window.current_character # NoCharacter
    => /\ IsRegistered(window.current_character)
       /\ window.current_character.registered \in DOMAIN characters

\* C30 as stated: the time the window shows as "Last saved" for a character
\* that has a saved file is the time of that character's last successful
\* save, which is the updated_at its file holds.
C30_AsStated ==
    /\ IsRegistered(window.current_character)
    /\ SavePath(window.current_character.registered) \in DOMAIN files
    /\ IsObject(files[SavePath(window.current_character.registered)])
    => window.last_saved_label
         = LastSaved(files[SavePath(window.current_character.registered)].updated_at)

(***************************************************************************)
(* Two CharacterManager instances on one save directory: characters is the *)
(* registry of the first, other the registry of the second.  Each keeps    *)
(* its own objects; the files are all they share.  The directory starts    *)
(* empty.                                                                  *)
(***************************************************************************)
InitShared ==
    /\ characters = EmptyMap
    /\ other = EmptyMap
    /\ files = EmptyMap
    /\ uuids = 0
    /\ now = 0
    /\ last = Outcome("init", "", NoPath, "none", TRUE, FALSE, <<>>)
    /\ window = NoWindow

OtherKnownIds == DOMAIN other \cup {"a"}

OtherLoadAll ==
    \E listing \in Listings(DOMAIN files) :
        LET r == load_all_characters([characters |-> other, uuids |-> uuids], files, listing)
        IN  /\ r.uuids <= MaxUuids
            /\ other' = r.characters
            /\ uuids' = r.uuids
            /\ last' = Outcome("other_load_all", "", NoPath, "none", TRUE, FALSE, r.ret)
            /\ UNCHANGED <<characters, files, now, window>>

OtherSave ==
    \E character_id \in OtherKnownIds :
      \E fault \in IF character_id \in DOMAIN other THEN SaveFaults ELSE {"none"} :
        LET r == save_character(other, files, character_id, fault)
        IN  /\ files' = r.files
            /\ last' = Outcome("other_save", character_id, SavePath(character_id),
                               fault, r.ok, FALSE, <<>>)
            /\ UNCHANGED <<characters, other, uuids, now, window>>

OtherDelete ==
    \E character_id \in OtherKnownIds :
      \E fault \in IF character_id \in DOMAIN other /\ SavePath(character_id) \in DOMAIN files
                   THEN BOOLEAN ELSE {FALSE} :
        LET r == delete_character(other, files, character_id, fault)
        IN  /\ other' = r.characters
            /\ files' = r.files
            /\ last' = Outcome("other_delete", character_id, SavePath(character_id),
                               IF fault THEN "remove" ELSE "none", r.ok, r.raised, <<>>)
            /\ UNCHANGED <<characters, uuids, now, window>>

NextShared ==
    \/ CreateCharacter
    \/ AddItem
    \/ LoadAllCharacters
    \/ SaveCharacter
    \/ DeleteCharacter
    \/ OtherLoadAll
    \/ OtherSave
    \/ OtherDelete

SpecShared == InitShared /\ [][NextShared]_vars

\* the registry of the manager that made the call op
RegistryOf(op, first, second) ==
    IF op \in {"other_load_all", "other_save", "other_delete"} THEN second ELSE first

\* C29 as stated: right after one manager's delete_character(id) returned
\* True, a call of the other manager does not make <id>.json exist again;
\* and right after one manager's successful save of id, a save of the other
\* manager does not put a value with an earlier updated_at in its place.
C29_AsStated ==
    [][/\ /\ last.op \in {"delete", "other_delete"} /\ last.ok
          /\ RegistryOf(last'.op, 1, 2) # RegistryOf(last.op, 1, 2)
          => last.path \notin DOMAIN files'
       /\ /\ last.op \in {"save", "other_save"} /\ last.ok
          /\ last'.op \in {"save", "other_save"} /\ last'.ok
          /\ last'.id = last.id
          /\ RegistryOf(last'.op, 1, 2) # RegistryOf(last.op, 1, 2)
          => files'[last.path].updated_at >= files[last.path].updated_at]_vars

\* C29: two managers on one directory are not coordinated.  What holds:
\* every successful save_character(id) of either manager leaves <id>.json
\* holding the value that manager has registered, whatever the file held;
\* a delete_character that returns True leaves no <id>.json; and a file
\* comes to exist only as <id>.json in a save of a manager that has id
\* registered.
C29_LastWriter ==
    [][/\ last'.op \in {"save", "other_save"} /\ last'.ok
          => /\ last'.id \in DOMAIN RegistryOf(last'.op, characters, other)
             /\ files'[last'.path]
                  = character_dict(RegistryOf(last'.op, characters, other)[last'.id])
       /\ last'.op \in {"delete", "other_delete"} /\ last'.ok
          => last'.path \notin DOMAIN files'
       /\ \A f \in DOMAIN files' \ DOMAIN files :
             /\ last'.op \in {"save", "other_save"}
             /\ f = last'.path
             /\ last'.id \in DOMAIN RegistryOf(last'.op, characters, other)]_vars

\* the second manager saved a character that the first had created, saved
\* and then deleted: the file exists again
C29_Witness ==
    /\ last.op = "other_save" /\ last.ok
    /\ last.id = uuid4(1)
    /\ ~last.existed
    /\ last.id \notin DOMAIN characters
    /\ last.path \in DOMAIN files


====
